---------------------------- MODULE Spec2Model ----------------------------
(***************************************************************************)
(* State-machine model of the download orchestrator of BOIIIWDPlus         *)
(* (src/api/boiiiwd_api_improved.py): the DownloadManager, the shared      *)
(* app_state record, the HTTP command handlers that drive it, the external *)
(* SteamCMD process and the destination library on disk.                   *)
(*                                                                         *)
(* Python None is written "None".  A JSON value of the manifest is a       *)
(* record [t |-> its type, v |-> its str() rendering], so that a string    *)
(* and a number that print alike stay different values, as in Python.      *)
(***************************************************************************)
EXTENDS Integers, Sequences, FiniteSets, TLC

(***************************************************************************)
(* Bounds of the model.                                                    *)
(***************************************************************************)
MaxWorkers == 2        \* worker-thread slots the model can hold at once
MaxTicks == 2          \* polling ticks of one job
MaxOrphans == 1        \* live processes whose handle was released
MaxSlowTurns == 1      \* turns of the manifest wait followed one by one
MaxDirs == 2           \* directories of the destination library
MaxHandlers == 2       \* request-handler threads inside enqueue at once
MaxHistory == 5        \* samples a job has taken before the tick that is followed
MaxSample == 2         \* bytes one sample of that job may report

(***************************************************************************)
(* Program constants.                                                      *)
(***************************************************************************)
max_wait == 120        \* seconds the worker waits for workshop.json
max_attempts == 10     \* suffix attempts of the install loop
history_capacity == 60 \* size_samples entries kept
window == 5            \* samples averaged for the percentage

(***************************************************************************)
(* Inputs.                                                                 *)
(***************************************************************************)
Ids == {"1", "2"}                       \* well-formed workshop identifiers
RawIds == {"1", "id=2", "x"}            \* what a caller may submit
FileSizes == {0, 1}                     \* expected size from the metadata lookup
SampleSizes == {0, 1}                   \* byte growth one size sample reports

\* item lists of an enqueue request
ItemLists ==
    { <<>>, <<"1">>, <<"id=2">>, <<"x">>, <<"1", "1">>, <<"1", "id=2">>,
      <<"id=2", "1">>, <<"1", "id=2", "1">> }
Slots == 1..MaxWorkers
Handlers == 1..MaxHandlers

JsonStr(s) == [t |-> "str", v |-> s]
JsonInt(s) == [t |-> "int", v |-> s]
Absent == [t |-> "null", v |-> "None"]

\* workshop.json contents a download may produce
Manifests ==
    { [FolderName |-> JsonStr("a"), PublisherID |-> Absent, Type |-> JsonStr("map")] }

VARIABLES
    app_state,      \* the shared status record (module global app_state)
    thread,         \* DownloadManager.thread: the slot of the live thread it names,
                    \* 0 when it is None or names a finished Thread
    queue_thread,   \* DownloadManager.queue_thread, likewise
    stop_event,     \* DownloadManager.stop_event
    process,        \* DownloadManager.process: "None" or "Popen"
    current_mode,   \* DownloadManager.current_mode
    worker,         \* the worker threads: position and locals of each slot
    proc_state,     \* the process behind the handle: "none", "running", "exited"
    term_sent,      \* terminate() was sent to that process
    returncode,     \* its exit code once exited
    orphans,        \* processes still running whose handle was released
    dirs,           \* the destination library: <<subtree, name>> -> content
    fix,            \* the repair request being served: its locals
    handler         \* the add_to_queue requests being served: position and locals

vars == <<app_state, thread, queue_thread, stop_event, process, current_mode,
          worker, proc_state, term_sent, returncode, orphans, dirs, fix, handler>>

mgr_vars == <<thread, queue_thread, stop_event, current_mode>>
os_vars == <<process, proc_state, term_sent, returncode, orphans>>

NonTerminal == {"preparing", "downloading", "installing"}
Terminal == {"completed", "error", "stopped"}

(***************************************************************************)
(* Pure helpers.                                                           *)
(***************************************************************************)
isdigit(v) == v \in Ids

\* extract_workshop_id: all digits -> itself; "...id=<digits>" -> the digits; else None
extract_workshop_id(value) ==
    IF isdigit(value) THEN value
    ELSE IF value = "id=2" THEN "2"
    ELSE "None"

\* Python truthiness of a manifest value
Truthy(j) == j.t # "null" /\ j.v # ""

\* a or b or c, on manifest values
PyOr(a, b) == IF Truthy(a) THEN a ELSE b

format_speed(bytes_per_second) ==
    IF bytes_per_second <= 0 THEN "0 B/s"
    ELSE ToString(bytes_per_second) \o ".00 B/s"

Min(a, b) == IF a < b THEN a ELSE b
Max(a, b) == IF a > b THEN a ELSE b

RECURSIVE SumSeq(_)
SumSeq(s) == IF s = <<>> THEN 0 ELSE Head(s) + SumSeq(Tail(s))

\* size_samples[-5:]
LastN(s, n) == IF Len(s) <= n THEN s ELSE SubSeq(s, Len(s) - n + 1, Len(s))

\* size_samples.append(total_bytes); if len(size_samples) > 60: size_samples.pop(0)
AppendSample(s, total_bytes) ==
    LET t == Append(s, total_bytes)
    IN  IF Len(t) > history_capacity THEN Tail(t) ELSE t

\* sum(size_samples[-5:]) // min(len(size_samples), 5)
average_bytes(s) == SumSeq(LastN(s, window)) \div Min(Len(s), window)

\* RawProgress counting an unknown size as reached
RawProgressUnknownFull(avg, file_size_bytes) ==
    IF file_size_bytes # 0 THEN Min((avg * 100) \div file_size_bytes, 100) ELSE 100

\* progress = 0; if file_size_bytes: progress = min(int(average / size * 100), 100)
\* (the float product truncated by int() is the integer quotient for the sizes
\* and averages of this model)
RawProgress(avg, file_size_bytes) ==
    IF file_size_bytes # 0 THEN Min((avg * 100) \div file_size_bytes, 100) ELSE 0

\* TickProgress without the clamp against the value reported before
TickProgressNoClamp(avg, file_size_bytes, current_progress, running) ==
    LET p == RawProgress(avg, file_size_bytes)
    IN  IF p >= 100 /\ running THEN 99 ELSE p

\* the clamps of one polling tick: never below the reported value, 99 while running
TickProgress(avg, file_size_bytes, current_progress, running) ==
    LET p == RawProgress(avg, file_size_bytes)
        q == IF p < current_progress THEN current_progress ELSE p
    IN  IF q >= 100 /\ running THEN 99 ELSE q

\* _update_state(**kwargs): app_state.update(kwargs)
Updated(st, kwargs) ==
    [k \in DOMAIN st |-> IF k \in DOMAIN kwargs THEN kwargs[k] ELSE st[k]]

\* is_busy looking at the single-download thread alone
is_busy_thread_only == thread \in Slots

\* DownloadManager.is_busy
is_busy == thread \in Slots \/ queue_thread \in Slots

\* enqueue testing each item against the queue as it was before the call
enqueue_stale_test(q, items) ==
    q \o SelectSeq(items, LAMBDA item : \A i \in 1..Len(q) : q[i] # item)

\* for item in items: if item not in queue: queue.append(item)
RECURSIVE enqueue(_, _)
enqueue(q, items) ==
    IF items = <<>> THEN q
    ELSE LET item == Head(items)
         IN  IF \E i \in 1..Len(q) : q[i] = item
             THEN enqueue(q, Tail(items))
             ELSE enqueue(Append(q, item), Tail(items))

\* cleaned = [extract_workshop_id(item) for item in raw_items if it is not None]
RECURSIVE cleaned(_)
cleaned(raw_items) ==
    IF raw_items = <<>> THEN <<>>
    ELSE LET extracted == extract_workshop_id(Head(raw_items))
         IN  IF extracted # "None" THEN <<extracted>> \o cleaned(Tail(raw_items))
             ELSE cleaned(Tail(raw_items))

\* queue.remove(item): drops the first occurrence
RECURSIVE list_remove(_, _)
list_remove(q, item) ==
    IF q = <<>> THEN q
    ELSE IF Head(q) = item THEN Tail(q)
    ELSE <<Head(q)>> \o list_remove(Tail(q), item)

\* final_folder of the install: the declared name, then name_id_attempts while the
\* candidate exists, attempts < 10 and final_folder.name != folder_name
RECURSIVE resolve_folder(_, _, _, _, _)
resolve_folder(base, name, folder_name, workshop_id, attempts) ==
    IF <<base, name>> \in DOMAIN dirs /\ attempts < max_attempts
       /\ ~(folder_name.t = "str" /\ folder_name.v = name)
    THEN resolve_folder(base,
                        folder_name.v \o "_" \o workshop_id \o "_" \o ToString(attempts + 1),
                        folder_name, workshop_id, attempts + 1)
    ELSE name

\* str.lower() on the kinds a manifest may carry
lower(s) == IF s = "Map" THEN "map" ELSE s

\* item_type = (metadata.get("Type") or "map").lower()
item_type(metadata) == lower(PyOr(metadata.Type, JsonStr("map")).v)

\* destination_base that puts every kind under the maps subtree
destination_base_maps_only(metadata) == "usermaps"

\* destination_base: "usermaps" if item_type == "map" else "mods"
destination_base(metadata) ==
    IF item_type(metadata) = "map" THEN "usermaps" ELSE "mods"

\* folder_name = FolderName or PublisherID or workshop_id
declared_folder(metadata, workshop_id) ==
    PyOr(metadata.FolderName, PyOr(metadata.PublisherID, JsonStr(workshop_id)))

(***************************************************************************)
(* Initial state: DownloadManager.__init__ and the app_state literal.      *)
(***************************************************************************)
\* metadata before read_workshop_json has given one
NoMetadata == [FolderName |-> Absent, PublisherID |-> Absent, Type |-> Absent]

IdleWorker ==
    [pc |-> "off", target |-> "none", workshop_id |-> "None", success |-> FALSE,
     file_size_bytes |-> 0, size_samples |-> <<>>, waited |-> 0,
     final_folder |-> "None", base |-> "None", metadata |-> NoMetadata, i |-> 0]

\* the destination folder holds no item before the first install
InitialLibraries == { <<>> }

\* no repair request is being served
NoFix == [pc |-> "idle", target_ids |-> "all", entries |-> <<>>,
          fixed |-> <<>>, errors |-> <<>>]

\* a request thread that is not inside DownloadManager.enqueue
IdleHandler == [pc |-> "idle", items |-> <<>>, added |-> <<>>]

\* the process at start-up, whatever the destination folder holds
StartUp ==
    /\ app_state = [download_progress |-> 0, download_status |-> "idle",
                    current_download |-> "None", queue |-> <<>>,
                    downloading |-> FALSE, download_speed |-> "0 B/s",
                    status_message |-> ""]
    /\ thread = 0
    /\ queue_thread = 0
    /\ stop_event = FALSE
    /\ process = "None"
    /\ current_mode = "None"
    /\ worker = [w \in Slots |-> IdleWorker]
    /\ proc_state = "none"
    /\ term_sent = FALSE
    /\ returncode = 0
    /\ orphans = 0
    /\ fix = NoFix
    /\ handler = [h \in Handlers |-> IdleHandler]

Init ==
    /\ StartUp
    /\ dirs \in InitialLibraries


(***************************************************************************)
(* Thread bookkeeping.                                                     *)
(***************************************************************************)
FreeSlot(w) == worker[w].pc = "off" /\ \A v \in Slots : v < w => worker[v].pc # "off"

\* where _perform_download returns to: _process_queue's loop or _run_download
ReturnPc(w) == IF worker[w].target = "queue" THEN "q_after" ELSE "end"

\* the locals of _perform_download go away when it returns
Returned(w, ok) ==
    [IdleWorker EXCEPT !.pc = ReturnPc(w), !.target = worker[w].target,
                       !.workshop_id = worker[w].workshop_id, !.success = ok]

\* a finished Thread object answers is_alive() with False
ThreadEnds(w) ==
    /\ thread' = IF thread = w THEN 0 ELSE thread
    /\ queue_thread' = IF queue_thread = w THEN 0 ELSE queue_thread
    /\ worker' = [worker EXCEPT ![w] = IdleWorker]

(***************************************************************************)
(* Admission: DownloadManager.start_download and start_queue, each a       *)
(* critical section of self.lock.                                          *)
(***************************************************************************)
\* start_download clearing stop_event before it tests is_busy
StartDownloadClearsFirst(workshop_id) ==
    \/ /\ is_busy
       /\ stop_event' = FALSE
       /\ UNCHANGED <<app_state, thread, queue_thread, current_mode, worker,
                      os_vars, dirs, fix, handler>>
    \/ /\ ~is_busy
       /\ \E w \in Slots :
             /\ FreeSlot(w)
             /\ thread' = w
             /\ worker' = [worker EXCEPT ![w] =
                     [IdleWorker EXCEPT !.pc = "perform", !.target = "run",
                                        !.workshop_id = workshop_id]]
       /\ stop_event' = FALSE
       /\ current_mode' = "single"
       /\ UNCHANGED <<app_state, queue_thread, os_vars, dirs, fix, handler>>

StartDownload(workshop_id) ==
    \/ /\ is_busy
       /\ UNCHANGED vars
    \/ /\ ~is_busy
       /\ \E w \in Slots :
             /\ FreeSlot(w)
             /\ thread' = w
             /\ worker' = [worker EXCEPT ![w] =
                     [IdleWorker EXCEPT !.pc = "perform", !.target = "run",
                                        !.workshop_id = workshop_id]]
       /\ stop_event' = FALSE
       /\ current_mode' = "single"
       /\ UNCHANGED <<app_state, queue_thread, os_vars, dirs, fix, handler>>

\* start_queue leaving stop_event as it finds it
StartQueueKeepsEvent ==
    \/ /\ is_busy
       /\ UNCHANGED vars
    \/ /\ ~is_busy
       /\ app_state.queue = <<>>
       /\ UNCHANGED vars
    \/ /\ ~is_busy
       /\ app_state.queue # <<>>
       /\ \E w \in Slots :
             /\ FreeSlot(w)
             /\ queue_thread' = w
             /\ worker' = [worker EXCEPT ![w] =
                     [IdleWorker EXCEPT !.pc = "q_loop", !.target = "queue"]]
       /\ current_mode' = "queue"
       /\ UNCHANGED <<app_state, thread, stop_event, os_vars, dirs, fix, handler>>

StartQueue ==
    \/ /\ is_busy
       /\ UNCHANGED vars
    \/ /\ ~is_busy
       /\ app_state.queue = <<>>
       /\ UNCHANGED vars
    \/ /\ ~is_busy
       /\ app_state.queue # <<>>
       /\ \E w \in Slots :
             /\ FreeSlot(w)
             /\ queue_thread' = w
             /\ worker' = [worker EXCEPT ![w] =
                     [IdleWorker EXCEPT !.pc = "q_loop", !.target = "queue"]]
       /\ stop_event' = FALSE
       /\ current_mode' = "queue"
       /\ UNCHANGED <<app_state, thread, os_vars, dirs, fix, handler>>

(***************************************************************************)
(* DownloadManager.stop: set the event and terminate a running process.    *)
(***************************************************************************)
Stop ==
    /\ stop_event' = TRUE
    /\ term_sent' = IF process # "None" /\ proc_state = "running" THEN TRUE ELSE term_sent
    /\ UNCHANGED <<app_state, thread, queue_thread, current_mode, worker,
                   process, proc_state, returncode, orphans, dirs, fix, handler>>

(***************************************************************************)
(* Queue handlers: add_to_queue -> DownloadManager.enqueue, clear_queue,   *)
(* remove_from_queue.                                                      *)
(***************************************************************************)
AddToQueue(raw_items) ==
    /\ app_state' = [app_state EXCEPT !.queue = enqueue(@, cleaned(raw_items))]
    /\ UNCHANGED <<mgr_vars, worker, os_vars, dirs, fix, handler>>

ClearQueue ==
    /\ app_state' = [app_state EXCEPT !.queue = <<>>]
    /\ UNCHANGED <<mgr_vars, worker, os_vars, dirs, fix, handler>>

RemoveFromQueue(raw_id) ==
    LET extracted == extract_workshop_id(raw_id)
        item_id == IF extracted # "None" THEN extracted ELSE raw_id
    IN  /\ app_state' = [app_state EXCEPT !.queue = list_remove(@, item_id)]
        /\ UNCHANGED <<mgr_vars, worker, os_vars, dirs, fix, handler>>

(***************************************************************************)
(* The external process and the processes left behind.                     *)
(***************************************************************************)
\* a terminated process exits with the terminate code, any other with its own
ProcExit(code) ==
    /\ proc_state = "running"
    /\ proc_state' = "exited"
    /\ returncode' = IF term_sent THEN 1 ELSE code
    /\ UNCHANGED <<app_state, mgr_vars, worker, process, term_sent, orphans, dirs, fix, handler>>

OrphanExit ==
    /\ orphans > 0
    /\ orphans' = orphans - 1
    /\ UNCHANGED <<app_state, mgr_vars, worker, process, proc_state, term_sent,
                   returncode, dirs, fix, handler>>

(***************************************************************************)
(* The worker: _process_queue / _run_download around _perform_download.    *)
(***************************************************************************)
At(w, pc) == worker[w].pc = pc

Goto(w, pc) == worker' = [worker EXCEPT ![w].pc = pc]

\* finally: self.process = None, on every way out of the try block; a process
\* still running then has no handle any more
Finally ==
    /\ process' = "None"
    /\ proc_state' = "none"
    /\ term_sent' = FALSE
    /\ returncode' = 0
    /\ orphans' = IF proc_state = "running" THEN orphans + 1 ELSE orphans

\* ErrorUpdate leaving app_state["downloading"] as it is
ErrorUpdateKeepsFlag(message) ==
    app_state' = Updated(app_state, [download_status |-> "error",
                                     status_message |-> message])

ErrorUpdate(message) ==
    app_state' = Updated(app_state, [download_status |-> "error",
                                     status_message |-> message,
                                     downloading |-> FALSE])

\* an error outcome of _perform_download before the try block: plain return
ErrorReturn(w, message) ==
    /\ ErrorUpdate(message)
    /\ worker' = [worker EXCEPT ![w] = Returned(w, FALSE)]
    /\ UNCHANGED os_vars

\* an error outcome inside the try block: update, return through the finally clause
ErrorInTry(w, message) ==
    /\ ErrorUpdate(message)
    /\ worker' = [worker EXCEPT ![w] = Returned(w, FALSE)]
    /\ Finally

\* while app_state["queue"] and not self.stop_event.is_set(): next_id = queue[0]
ProcessQueueTest(w) ==
    /\ At(w, "q_loop")
    /\ IF app_state.queue # <<>> /\ ~stop_event
       THEN worker' = [worker EXCEPT ![w].pc = "perform",
                                     ![w].workshop_id = Head(app_state.queue)]
       ELSE worker' = [worker EXCEPT ![w].pc = "end", ![w].workshop_id = "None"]
    /\ UNCHANGED <<app_state, mgr_vars, os_vars, dirs, fix, handler>>

\* the first _update_state of _perform_download
PerformBegin(w) ==
    /\ At(w, "perform")
    /\ app_state' = Updated(app_state,
            [download_status |-> "preparing", download_progress |-> 0,
             status_message |-> "Preparing download...",
             current_download |-> worker[w].workshop_id,
             downloading |-> TRUE, download_speed |-> "0 B/s"])
    /\ Goto(w, "validate")
    /\ UNCHANGED <<mgr_vars, os_vars, dirs, fix, handler>>

ValidId(w) == extract_workshop_id(worker[w].workshop_id) # "None"

\* the check made before the identifier is looked at
EarlyConfigErrors == {"Destination folder is not set"}

\* the failures after it, the metadata lookup last
LateConfigErrors == {"Steam Workshop returned an unexpected response"}

ConfigError(w, message) ==
    /\ At(w, "validate")
    /\ message \in EarlyConfigErrors \/ (message \in LateConfigErrors /\ ValidId(w))
    /\ ErrorReturn(w, message)
    /\ UNCHANGED <<mgr_vars, dirs, fix, handler>>

\* the only error update that leaves app_state["downloading"] as it is
InvalidWorkshopId(w) ==
    /\ At(w, "validate")
    /\ ~ValidId(w)
    /\ app_state' = Updated(app_state, [download_status |-> "error",
                                        status_message |-> "Invalid Workshop ID"])
    /\ worker' = [worker EXCEPT ![w] = Returned(w, FALSE)]
    /\ UNCHANGED <<mgr_vars, os_vars, dirs, fix, handler>>

ValidateOk(w, size) ==
    /\ At(w, "validate")
    /\ ValidId(w)
    /\ LET id == extract_workshop_id(worker[w].workshop_id)
       IN  /\ app_state' = Updated(app_state,
                    [downloading |-> TRUE, current_download |-> id,
                     download_status |-> "downloading",
                     status_message |-> "Downloading from Steam Workshop..."])
           /\ worker' = [worker EXCEPT ![w].pc = "spawn", ![w].workshop_id = id,
                                       ![w].file_size_bytes = size]
    /\ UNCHANGED <<mgr_vars, os_vars, dirs, fix, handler>>

\* self.process = subprocess.Popen(...): a handle still held is overwritten
SpawnProcess(w) ==
    /\ At(w, "spawn")
    /\ proc_state = "running" => orphans < MaxOrphans
    /\ process' = "Popen"
    /\ proc_state' = "running"
    /\ term_sent' = FALSE
    /\ returncode' = 0
    /\ orphans' = IF proc_state = "running" THEN orphans + 1 ELSE orphans
    /\ Goto(w, "poll")
    /\ UNCHANGED <<app_state, mgr_vars, dirs, fix, handler>>

\* ensure_directory or Popen raises outside the try block: the thread dies there
SpawnRaises(w) ==
    /\ At(w, "spawn")
    /\ ThreadEnds(w)
    /\ UNCHANGED <<app_state, stop_event, current_mode, os_vars, dirs, fix, handler>>

\* while self.process.poll() is None, the process has exited with a failure:
\* return_code = self.process.wait(); if return_code != 0: error
PollFailed(w) ==
    /\ At(w, "poll")
    /\ process = "Popen"
    /\ proc_state = "exited"
    /\ returncode # 0
    /\ ErrorInTry(w, "SteamCMD failed to download the item")
    /\ UNCHANGED <<mgr_vars, dirs, fix, handler>>

\* PollExited going on to the manifest whatever the exit code
PollExitedAnyCode(w) ==
    /\ At(w, "poll")
    /\ process = "Popen"
    /\ proc_state = "exited"
    /\ app_state' = Updated(app_state, [status_message |-> "Finalizing download..."])
    /\ worker' = [worker EXCEPT ![w].pc = "manifest", ![w].size_samples = <<>>,
                                ![w].file_size_bytes = 0]
    /\ UNCHANGED <<mgr_vars, os_vars, dirs, fix, handler>>

\* ... it has exited with code 0: on to the wait for workshop.json
PollExited(w) ==
    /\ At(w, "poll")
    /\ process = "Popen"
    /\ proc_state = "exited"
    /\ returncode = 0
    /\ app_state' = Updated(app_state, [status_message |-> "Finalizing download..."])
    /\ worker' = [worker EXCEPT ![w].pc = "manifest", ![w].size_samples = <<>>,
                                ![w].file_size_bytes = 0]
    /\ UNCHANGED <<mgr_vars, os_vars, dirs, fix, handler>>

\* ... it runs and stop_event is set: self.process.terminate()
PollStop(w) ==
    /\ At(w, "poll")
    /\ process = "Popen"
    /\ proc_state = "running"
    /\ stop_event
    /\ term_sent' = TRUE
    /\ Goto(w, "term_wait")
    /\ UNCHANGED <<app_state, mgr_vars, process, proc_state, returncode, orphans, dirs, fix, handler>>

\* ... it runs and no stop was asked: time.sleep(1)
PollRunning(w) ==
    /\ At(w, "poll")
    /\ process = "Popen"
    /\ proc_state = "running"
    /\ ~stop_event
    /\ Len(worker[w].size_samples) < MaxTicks
    /\ Goto(w, "sample")
    /\ UNCHANGED <<app_state, mgr_vars, os_vars, dirs, fix, handler>>

\* WaitExited reporting stopped without waiting for the process to exit
WaitExitedUnwaited(w) ==
    /\ At(w, "term_wait")
    /\ proc_state = "running" => orphans < MaxOrphans
    /\ app_state' = Updated(app_state,
            [download_status |-> "stopped",
             status_message |-> "Download cancelled by user",
             downloading |-> FALSE, download_speed |-> "0 B/s"])
    /\ worker' = [worker EXCEPT ![w] = Returned(w, FALSE)]
    /\ Finally
    /\ UNCHANGED <<mgr_vars, dirs, fix, handler>>

\* self.process.wait(timeout=5) returns: the job is stopped
WaitExited(w) ==
    /\ At(w, "term_wait")
    /\ proc_state = "exited"
    /\ app_state' = Updated(app_state,
            [download_status |-> "stopped",
             status_message |-> "Download cancelled by user",
             downloading |-> FALSE, download_speed |-> "0 B/s"])
    /\ worker' = [worker EXCEPT ![w] = Returned(w, FALSE)]
    /\ Finally
    /\ UNCHANGED <<mgr_vars, dirs, fix, handler>>

\* self.process.wait(timeout=5) raises TimeoutExpired: the broad except reports it
WaitTimeout(w) ==
    /\ At(w, "term_wait")
    /\ proc_state = "running"
    /\ orphans < MaxOrphans
    /\ ErrorInTry(w, "exc")
    /\ UNCHANGED <<mgr_vars, dirs, fix, handler>>

\* previous_size: the total of the tick before, 0 on the first tick
previous_size(w) ==
    LET s == worker[w].size_samples IN IF s = <<>> THEN 0 ELSE s[Len(s)]

\* one polling tick after time.sleep(1), with the size the sampler reports
SampleTick(w, total_bytes) ==
    /\ At(w, "sample")
    /\ process = "Popen"
    /\ LET samples == AppendSample(worker[w].size_samples, total_bytes)
           progress == TickProgress(average_bytes(samples), worker[w].file_size_bytes,
                                    app_state.download_progress, proc_state = "running")
       IN  /\ app_state' = Updated(app_state,
                    [download_progress |-> progress,
                     download_speed |-> format_speed(total_bytes - previous_size(w)),
                     status_message |-> "Downloading from Steam Workshop..."])
           /\ worker' = [worker EXCEPT ![w].pc = "poll", ![w].size_samples = samples]
    /\ UNCHANGED <<mgr_vars, os_vars, dirs, fix, handler>>

\* Turns of the wait for workshop.json, each a sleep of 2 when content is there and
\* of 1 otherwise, adding up to `seconds`.  waited is read by this loop alone, so
\* turns taken in a row are one step: a single turn, or all the turns left until
\* the wait expires at max_wait (or at max_wait + 1, a sleep of 2 from max_wait - 1).
WaitChoices(w) ==
    {s \in {1, 2} : worker[w].waited < MaxSlowTurns}
        \cup {max_wait - worker[w].waited, max_wait + 1 - worker[w].waited}

ManifestWait(w, seconds) ==
    /\ At(w, "manifest")
    /\ worker[w].waited < max_wait
    /\ ~stop_event
    /\ seconds > 0
    /\ worker' = [worker EXCEPT ![w].waited = @ + seconds]
    /\ UNCHANGED <<app_state, mgr_vars, os_vars, dirs, fix, handler>>

\* workshop.json is there, at its place or found by rglob
ManifestFound(w) ==
    /\ At(w, "manifest")
    /\ worker' = [worker EXCEPT ![w].pc = "install", ![w].waited = 0]
    /\ UNCHANGED <<app_state, mgr_vars, os_vars, dirs, fix, handler>>

\* the wait ended and neither the place nor the search gives a workshop.json
ManifestMissing(w) ==
    /\ At(w, "manifest")
    /\ worker[w].waited >= max_wait \/ stop_event
    /\ ErrorInTry(w, "workshop.json was not produced by SteamCMD")
    /\ UNCHANGED <<mgr_vars, dirs, fix, handler>>

\* read_workshop_json returns nothing
ManifestUnreadable(w) ==
    /\ At(w, "install")
    /\ ErrorInTry(w, "Unable to read workshop.json")
    /\ UNCHANGED <<mgr_vars, dirs, fix, handler>>

\* the folder is chosen, ensure_directory(zone_folder) makes it, phase installing
InstallResolve(w, metadata) ==
    /\ At(w, "install")
    /\ LET folder_name == declared_folder(metadata, worker[w].workshop_id)
           base == destination_base(metadata)
           final_folder == resolve_folder(base, folder_name.v, folder_name,
                                          worker[w].workshop_id, 0)
           made == <<base, final_folder>>
       IN  /\ made \notin DOMAIN dirs => Cardinality(DOMAIN dirs) < MaxDirs
           /\ dirs' = [d \in DOMAIN dirs \cup {made} |->
                          IF d \in DOMAIN dirs THEN dirs[d] ELSE {}]
           /\ worker' = [worker EXCEPT ![w].pc = "copy", ![w].base = base,
                                       ![w].final_folder = final_folder,
                                       ![w].metadata = metadata]
    /\ app_state' = Updated(app_state,
            [download_status |-> "installing",
             status_message |-> "Installing into game folder..."])
    /\ UNCHANGED <<mgr_vars, os_vars, fix, handler>>

\* shutil.copytree(source_root, zone_folder, dirs_exist_ok=True), then completed
CopyTree(w) ==
    /\ At(w, "copy")
    /\ dirs' = [dirs EXCEPT ![<<worker[w].base, worker[w].final_folder>>] =
                    @ \cup {worker[w].workshop_id}]
    /\ app_state' = Updated(app_state,
            [download_status |-> "completed", download_progress |-> 100,
             download_speed |-> "0 B/s",
             status_message |-> "Download completed successfully",
             downloading |-> FALSE])
    /\ Goto(w, "refresh")
    /\ UNCHANGED <<mgr_vars, os_vars, fix, handler>>

CopyRaises(w) ==
    /\ At(w, "copy")
    /\ ErrorInTry(w, "exc")
    /\ UNCHANGED <<mgr_vars, dirs, fix, handler>>

\* app_state["library_items"] = load_library_if_available(); return success
LibraryRefresh(w) ==
    /\ At(w, "refresh")
    /\ worker' = [worker EXCEPT ![w] = Returned(w, TRUE)]
    /\ Finally
    /\ UNCHANGED <<app_state, mgr_vars, dirs, fix, handler>>

\* the refresh raises inside the try block: the broad except reports an error
LibraryRefreshRaises(w) ==
    /\ At(w, "refresh")
    /\ ErrorInTry(w, "exc")
    /\ UNCHANGED <<mgr_vars, dirs, fix, handler>>

\* queue[1:], what queue.pop(0) leaves
pop0(q) == Tail(q)

\* after a job of the drain: pop the head; a failure in queue mode ends the drain
QueueAfter(w) ==
    /\ At(w, "q_after")
    /\ app_state.queue # <<>>
    /\ app_state' = [app_state EXCEPT !.queue = pop0(@)]
    /\ IF ~worker[w].success /\ current_mode = "queue"
       THEN Goto(w, "end")
       ELSE Goto(w, "q_loop")
    /\ UNCHANGED <<mgr_vars, os_vars, dirs, fix, handler>>

\* queue.pop(0) on a queue emptied meanwhile raises IndexError: the thread dies
QueuePopRaises(w) ==
    /\ At(w, "q_after")
    /\ app_state.queue = <<>>
    /\ ThreadEnds(w)
    /\ UNCHANGED <<app_state, stop_event, current_mode, os_vars, dirs, fix, handler>>

\* the closing _update_state of _run_download and of _process_queue
EndUpdate(w) ==
    /\ At(w, "end")
    /\ app_state' = Updated(app_state,
            [downloading |-> FALSE, current_download |-> "None",
             download_speed |-> "0 B/s"])
    /\ Goto(w, "exit")
    /\ UNCHANGED <<mgr_vars, os_vars, dirs, fix, handler>>

\* self.current_mode = None, and the thread is over
ThreadExit(w) ==
    /\ At(w, "exit")
    /\ current_mode' = "None"
    /\ ThreadEnds(w)
    /\ UNCHANGED <<app_state, stop_event, os_vars, dirs, fix, handler>>

WorkerStep(w) ==
    \/ ProcessQueueTest(w)
    \/ PerformBegin(w)
    \/ \E message \in EarlyConfigErrors \cup LateConfigErrors : ConfigError(w, message)
    \/ InvalidWorkshopId(w)
    \/ \E size \in FileSizes : ValidateOk(w, size)
    \/ SpawnProcess(w)
    \/ SpawnRaises(w)
    \/ PollFailed(w)
    \/ PollExited(w)
    \/ PollStop(w)
    \/ PollRunning(w)
    \/ WaitExited(w)
    \/ WaitTimeout(w)
    \/ \E total_bytes \in SampleSizes : SampleTick(w, total_bytes)
    \/ \E seconds \in WaitChoices(w) : ManifestWait(w, seconds)
    \/ ManifestFound(w)
    \/ ManifestMissing(w)
    \/ ManifestUnreadable(w)
    \/ \E metadata \in Manifests : InstallResolve(w, metadata)
    \/ CopyTree(w)
    \/ CopyRaises(w)
    \/ LibraryRefresh(w)
    \/ LibraryRefreshRaises(w)
    \/ QueueAfter(w)
    \/ QueuePopRaises(w)
    \/ EndUpdate(w)
    \/ ThreadExit(w)

Next ==
    \/ \E workshop_id \in RawIds : StartDownload(workshop_id)
    \/ StartQueue
    \/ Stop
    \/ \E raw_items \in ItemLists : AddToQueue(raw_items)
    \/ ClearQueue
    \/ \E raw_id \in RawIds : RemoveFromQueue(raw_id)
    \/ \E code \in {0, 1} : ProcExit(code)
    \/ OrphanExit
    \/ \E w \in Slots : WorkerStep(w)

Spec == Init /\ [][Next]_vars

\* what the scheduling gives: a live worker thread is run again, a process that
\* runs exits in the end, and so does one whose handle was released; requests
\* may stop coming
Fairness ==
    /\ \A w \in Slots : WF_vars(WorkerStep(w))
    /\ WF_vars(\E code \in {0, 1} : ProcExit(code))
    /\ WF_vars(OrphanExit)

SpecFair == Spec /\ Fairness

(***************************************************************************)
(* The install path on its own: single downloads whose tool run succeeds,  *)
(* one after the other, over every shape of workshop.json.                 *)
(***************************************************************************)
\* workshop.json contents: FolderName a string, a number or missing, PublisherID
\* there or not, Type in either spelling, another kind, or missing
InstallManifests ==
    [FolderName : {JsonStr("a"), JsonInt("7"), Absent},
     PublisherID : {JsonStr("p"), Absent},
     Type : {JsonStr("map"), JsonStr("Map"), JsonStr("mod"), Absent}]

InstallStep(w) ==
    \/ PerformBegin(w)
    \/ ValidateOk(w, 0)
    \/ SpawnProcess(w)
    \/ PollExited(w)
    \/ ManifestFound(w)
    \/ ManifestUnreadable(w)
    \/ \E metadata \in InstallManifests : InstallResolve(w, metadata)
    \/ CopyTree(w)
    \/ CopyRaises(w)
    \/ LibraryRefresh(w)
    \/ LibraryRefreshRaises(w)
    \/ EndUpdate(w)
    \/ ThreadExit(w)

NextInstall ==
    \/ \E workshop_id \in Ids : StartDownload(workshop_id)
    \/ ProcExit(0)
    \/ \E w \in Slots : InstallStep(w)

SpecInstall == Init /\ [][NextInstall]_vars

(***************************************************************************)
(* The repair operation: fix_bo3_enhanced_compatibility, over a usermaps   *)
(* folder as an earlier session may have left it.                          *)
(***************************************************************************)
\* directory names of the usermaps folder, in the order sorted() gives them
SortedNames == <<"1", "2", "a", "a_1">>

\* what a directory holds: nothing, or the files of one item
RepairContents == {{}} \cup {{id} : id \in Ids}

\* usermaps folders: each name missing or there with one of the contents
RepairLibraries ==
    UNION { [{<<"usermaps", SortedNames[i]>> : i \in I} -> RepairContents] :
            I \in SUBSET (1..Len(SortedNames)) }

\* the items of a repair request: "all", or a list of identifiers
FixItems == {[all |-> TRUE, ids |-> {}]} \cup {[all |-> FALSE, ids |-> {id}] : id \in Ids}

\* zone/workshop.json of a directory, as read_workshop_json gives it: None for a
\* directory without one, else the manifest of the item whose files it holds
zone_manifest(content) ==
    IF content = {} THEN NoMetadata
    ELSE LET id == CHOOSE i \in content : TRUE
         IN  [FolderName |-> JsonStr("a"), PublisherID |-> JsonStr(id),
              Type |-> JsonStr("map")]

\* sorted(p for p in usermaps_dir.iterdir() if p.is_dir())
sorted_entries ==
    SelectSeq(SortedNames, LAMBDA n : <<"usermaps", n>> \in DOMAIN dirs)

\* the suffix loop counting from the second candidate on
RECURSIVE fix_target_skips_one(_, _, _, _)
fix_target_skips_one(name, entry, expected_folder, suffix) ==
    IF <<"usermaps", name>> \in DOMAIN dirs /\ name # entry
    THEN fix_target_skips_one(expected_folder \o "_" \o ToString(suffix + 2),
                              entry, expected_folder, suffix + 2)
    ELSE name

\* while target_path.exists() and target_path != entry:
\*     suffix += 1; target_path = usermaps_dir / f"{expected_folder}_{suffix}"
RECURSIVE fix_target(_, _, _, _)
fix_target(name, entry, expected_folder, suffix) ==
    IF <<"usermaps", name>> \in DOMAIN dirs /\ name # entry
    THEN fix_target(expected_folder \o "_" \o ToString(suffix + 1),
                    entry, expected_folder, suffix + 1)
    ELSE name

\* the request is read and the directories are listed
FixStart(items) ==
    /\ fix.pc # "loop"
    /\ \/ /\ sorted_entries = <<>>
          /\ UNCHANGED vars
       \/ /\ sorted_entries # <<>>
          /\ fix' = [pc |-> "loop", target_ids |-> items, entries |-> sorted_entries,
                     fixed |-> <<>>, errors |-> <<>>]
          /\ UNCHANGED <<app_state, mgr_vars, worker, os_vars, dirs, handler>>

\* the entry the loop is at, and what the loop reads of it
fix_entry == Head(fix.entries)
fix_metadata == zone_manifest(dirs[<<"usermaps", fix_entry>>])
fix_publisher_id == PyOr(fix_metadata.PublisherID, JsonStr(fix_entry)).v

\* the three `continue` of the loop body
FixSkips ==
    \/ dirs[<<"usermaps", fix_entry>>] = {}
    \/ ~fix.target_ids.all /\ fix_publisher_id \notin fix.target_ids.ids
    \/ ~Truthy(fix_metadata.FolderName)
    \/ fix_metadata.FolderName.v = fix_entry

FixSkip ==
    /\ fix.pc = "loop" /\ fix.entries # <<>>
    /\ FixSkips
    /\ fix' = [fix EXCEPT !.entries = Tail(@)]
    /\ UNCHANGED <<app_state, mgr_vars, worker, os_vars, dirs, handler>>

\* entry.rename(target_path) succeeds; onto a directory in use it cannot
FixRename ==
    /\ fix.pc = "loop" /\ fix.entries # <<>>
    /\ ~FixSkips
    /\ LET expected_folder == fix_metadata.FolderName.v
           target == fix_target(expected_folder, fix_entry, expected_folder, 0)
           old == <<"usermaps", fix_entry>>
           new == <<"usermaps", target>>
       IN  /\ new \notin DOMAIN dirs \/ new = old
           /\ dirs' = [d \in (DOMAIN dirs \ {old}) \cup {new} |->
                          IF d = new THEN dirs[old] ELSE dirs[d]]
           /\ fix' = [fix EXCEPT !.entries = Tail(@),
                                 !.fixed = Append(@, [id |-> fix_publisher_id,
                                                      old_name |-> fix_entry,
                                                      new_name |-> target])]
    /\ UNCHANGED <<app_state, mgr_vars, worker, os_vars, handler>>

\* entry.rename(target_path) raises: the error is noted and the loop goes on
FixRenameRaises ==
    /\ fix.pc = "loop" /\ fix.entries # <<>>
    /\ ~FixSkips
    /\ fix' = [fix EXCEPT !.entries = Tail(@), !.errors = Append(@, fix_entry)]
    /\ UNCHANGED <<app_state, mgr_vars, worker, os_vars, dirs, handler>>

\* the library listing is refreshed and the answer is given
FixEnd ==
    /\ fix.pc = "loop" /\ fix.entries = <<>>
    /\ fix' = [fix EXCEPT !.pc = "done"]
    /\ UNCHANGED <<app_state, mgr_vars, worker, os_vars, dirs, handler>>

InitRepair ==
    /\ StartUp
    /\ dirs \in RepairLibraries

NextRepair ==
    \/ \E items \in FixItems : FixStart(items)
    \/ FixSkip
    \/ FixRename
    \/ FixRenameRaises
    \/ FixEnd

SpecRepair == InitRepair /\ [][NextRepair]_vars

\* destination folders that hold installed mods next to the maps: list_library_items
\* collects both subtrees
RepairBothLibraries ==
    UNION { [{<<"usermaps", n>> : n \in U} \cup {<<"mods", n>> : n \in M}
                -> RepairContents] :
            U \in SUBSET {"1", "a"}, M \in SUBSET {"2", "a"} }

InitRepairBoth ==
    /\ StartUp
    /\ dirs \in RepairBothLibraries

SpecRepairBoth == InitRepairBoth /\ [][NextRepair]_vars

(***************************************************************************)
(* The install path over a usermaps folder in which declared names and     *)
(* all the candidates of the suffix loop are taken.                        *)
(***************************************************************************)
\* destination_base / f"{folder_name}_{workshop_id}_{attempts}"
Candidate(folder_name, workshop_id, attempts) ==
    folder_name \o "_" \o workshop_id \o "_" \o ToString(attempts)

\* the declared name and the candidates the loop can reach for it
CandidateNames(folder_name, workshop_id) ==
    {folder_name} \cup {Candidate(folder_name, workshop_id, n) : n \in 1..max_attempts}

\* usermaps folders holding, for item 1, every name of the declared folders 7
\* and a, all with the same content
ExhaustedLibraries ==
    { [d \in {<<"usermaps", name>> :
                 name \in CandidateNames("7", "1") \cup CandidateNames("a", "1")}
          |-> content] : content \in RepairContents }

InitExhausted ==
    /\ StartUp
    /\ dirs \in ExhaustedLibraries

SpecExhausted == InitExhausted /\ [][NextInstall]_vars

(***************************************************************************)
(* One polling tick of a running download, over the sample histories and   *)
(* expected sizes a job may have when the tick begins.                     *)
(***************************************************************************)
TickSamples == 0..MaxSample
TickFileSizes == {0, 1, 3}

\* size_samples of a job after at most n ticks
RECURSIVE Histories(_)
Histories(n) ==
    IF n = 0 THEN {<<>>}
    ELSE LET shorter == Histories(n - 1)
         IN  shorter \cup {Append(h, total_bytes) :
                              h \in {g \in shorter : Len(g) = n - 1},
                              total_bytes \in TickSamples}

\* size_samples at its capacity, of a job whose samples were all the same
FullHistories == {[i \in 1..history_capacity |-> total_bytes] : total_bytes \in TickSamples}

\* download_progress as the ticks that took these samples have left it, the
\* process running at each of them; samples that are all the same gave the
\* same average, and so the same report, at every tick
RECURSIVE ReportedAfter(_, _)
ReportedAfter(samples, file_size_bytes) ==
    IF samples = <<>> THEN 0
    ELSE IF \A i \in 1..Len(samples) : samples[i] = samples[1]
    THEN TickProgress(samples[1], file_size_bytes, 0, TRUE)
    ELSE LET before == ReportedAfter(SubSeq(samples, 1, Len(samples) - 1),
                                     file_size_bytes)
         IN  TickProgress(average_bytes(samples), file_size_bytes, before, TRUE)

\* download_speed as the last of these ticks has left it
SpeedAfter(samples) ==
    IF samples = <<>> THEN "0 B/s"
    ELSE format_speed(samples[Len(samples)]
                      - (IF Len(samples) = 1 THEN 0 ELSE samples[Len(samples) - 1]))

\* a single download of item 1 in its polling loop, after time.sleep(1)
InitTick ==
    \E samples \in Histories(MaxHistory) \cup FullHistories,
       file_size_bytes \in TickFileSizes :
        /\ app_state = [download_progress |-> ReportedAfter(samples, file_size_bytes),
                        download_status |-> "downloading",
                        current_download |-> "1", queue |-> <<>>,
                        downloading |-> TRUE, download_speed |-> SpeedAfter(samples),
                        status_message |-> "Downloading from Steam Workshop..."]
        /\ worker = [w \in Slots |->
                IF w = 1
                THEN [IdleWorker EXCEPT !.pc = "sample", !.target = "run",
                                        !.workshop_id = "1",
                                        !.file_size_bytes = file_size_bytes,
                                        !.size_samples = samples]
                ELSE IdleWorker]
        /\ thread = 1
        /\ queue_thread = 0
        /\ stop_event = FALSE
        /\ process = "Popen"
        /\ current_mode = "single"
        /\ proc_state = "running"
        /\ term_sent = FALSE
        /\ returncode = 0
        /\ orphans = 0
        /\ dirs = <<>>
        /\ fix = NoFix
        /\ handler = [h \in Handlers |-> IdleHandler]

NextTick ==
    \/ \E w \in Slots, total_bytes \in TickSamples : SampleTick(w, total_bytes)
    \/ \E code \in {0, 1} : ProcExit(code)

SpecTick == InitTick /\ [][NextTick]_vars

(***************************************************************************)
(* add_to_queue requests served at the same time (app.run(threaded=True)). *)
(* DownloadManager.enqueue takes no lock: between its membership test and  *)
(* its append another request thread may run.                              *)
(***************************************************************************)
\* add_to_queue up to the call of enqueue: cleaned is built, added = []
EnqueueBegin(h, raw_items) ==
    /\ handler[h].pc = "idle"
    /\ handler' = [handler EXCEPT ![h] =
            [pc |-> "test", items |-> cleaned(raw_items), added |-> <<>>]]
    /\ UNCHANGED <<app_state, mgr_vars, worker, os_vars, dirs, fix>>

\* for item in items: if item not in app_state["queue"]
EnqueueTest(h) ==
    /\ handler[h].pc = "test"
    /\ handler[h].items # <<>>
    /\ IF \E i \in 1..Len(app_state.queue) : app_state.queue[i] = Head(handler[h].items)
       THEN handler' = [handler EXCEPT ![h].items = Tail(@)]
       ELSE handler' = [handler EXCEPT ![h].pc = "append"]
    /\ UNCHANGED <<app_state, mgr_vars, worker, os_vars, dirs, fix>>

\* app_state["queue"].append(item); added.append(item)
EnqueueAppend(h) ==
    /\ handler[h].pc = "append"
    /\ app_state' = [app_state EXCEPT !.queue = Append(@, Head(handler[h].items))]
    /\ handler' = [handler EXCEPT ![h].pc = "test", ![h].items = Tail(@),
                                  ![h].added = Append(@, Head(handler[h].items))]
    /\ UNCHANGED <<mgr_vars, worker, os_vars, dirs, fix>>

\* return added, and the response is sent
EnqueueReturn(h) ==
    /\ handler[h].pc = "test"
    /\ handler[h].items = <<>>
    /\ handler' = [handler EXCEPT ![h] = IdleHandler]
    /\ UNCHANGED <<app_state, mgr_vars, worker, os_vars, dirs, fix>>

\* app_state["queue"].clear() of clear_queue, between the steps of the others
EnqueueClearQueue ==
    /\ app_state' = [app_state EXCEPT !.queue = <<>>]
    /\ UNCHANGED <<mgr_vars, worker, os_vars, dirs, fix, handler>>

NextEnqueue ==
    \/ \E h \in Handlers, raw_items \in ItemLists : EnqueueBegin(h, raw_items)
    \/ \E h \in Handlers : EnqueueTest(h)
    \/ \E h \in Handlers : EnqueueAppend(h)
    \/ \E h \in Handlers : EnqueueReturn(h)
    \/ EnqueueClearQueue

SpecEnqueue == Init /\ [][NextEnqueue]_vars

(***************************************************************************)
(* stop_download requests served while a single download runs.             *)
(* DownloadManager.stop takes no lock and reads self.process once per use: *)
(* the worker's finally clause may run between two of its reads.           *)
(***************************************************************************)
\* self.stop_event.set()
StopSet(h) ==
    /\ handler[h].pc = "idle"
    /\ stop_event' = TRUE
    /\ handler' = [handler EXCEPT ![h].pc = "stop_test"]
    /\ UNCHANGED <<app_state, thread, queue_thread, current_mode, worker,
                   os_vars, dirs, fix>>

\* if self.process and ...: the first read of self.process
StopTest(h) ==
    /\ handler[h].pc = "stop_test"
    /\ handler' = [handler EXCEPT ![h].pc =
            IF process = "None" THEN "idle" ELSE "stop_poll"]
    /\ UNCHANGED <<app_state, mgr_vars, worker, os_vars, dirs, fix>>

\* ... and self.process.poll() is None: the second read; on None the attribute
\* lookup raises AttributeError, outside the try block
StopPoll(h) ==
    /\ handler[h].pc = "stop_poll"
    /\ handler' = [handler EXCEPT ![h].pc =
            IF process = "None" THEN "raised"
            ELSE IF proc_state = "running" THEN "stop_terminate" ELSE "idle"]
    /\ UNCHANGED <<app_state, mgr_vars, worker, os_vars, dirs, fix>>

\* try: self.process.terminate() except Exception: pass
StopTerminate(h) ==
    /\ handler[h].pc = "stop_terminate"
    /\ term_sent' = IF process # "None" /\ proc_state = "running" THEN TRUE ELSE term_sent
    /\ handler' = [handler EXCEPT ![h].pc = "idle"]
    /\ UNCHANGED <<app_state, mgr_vars, worker, process, proc_state, returncode,
                   orphans, dirs, fix>>

\* the exception leaves stop_download: the request is answered with a server error
StopRaised(h) ==
    /\ handler[h].pc = "raised"
    /\ handler' = [handler EXCEPT ![h].pc = "idle"]
    /\ UNCHANGED <<app_state, mgr_vars, worker, os_vars, dirs, fix>>

StopRequest(h) ==
    \/ StopSet(h)
    \/ StopTest(h)
    \/ StopPoll(h)
    \/ StopTerminate(h)
    \/ StopRaised(h)

\* the steps of a single download that is cancelled or whose tool run fails
StopStep(w) ==
    \/ PerformBegin(w)
    \/ ValidateOk(w, 0)
    \/ SpawnProcess(w)
    \/ PollFailed(w)
    \/ PollStop(w)
    \/ WaitExited(w)
    \/ WaitTimeout(w)
    \/ EndUpdate(w)
    \/ ThreadExit(w)

NextStop ==
    \/ \E workshop_id \in Ids : StartDownload(workshop_id)
    \/ \E h \in Handlers : StopRequest(h)
    \/ ProcExit(1)
    \/ OrphanExit
    \/ \E w \in Slots : StopStep(w)

SpecStop == Init /\ [][NextStop]_vars

(***************************************************************************)
(* Admission step by step. start_download and start_queue hold self.lock,  *)
(* which keeps other admissions out, but the thread they start takes no    *)
(* lock: it runs between thread.start() and the assignment of current_mode.*)
(***************************************************************************)
\* a request thread is inside `with self.lock`
LockHeld == \E h \in Handlers : handler[h].pc \in {"set_single", "set_queue"}

\* start_download up to self.thread.start()
StartDownloadBegin(h, workshop_id) ==
    /\ handler[h].pc = "idle"
    /\ ~LockHeld
    /\ \/ /\ is_busy
          /\ UNCHANGED vars
       \/ /\ ~is_busy
          /\ \E w \in Slots :
                /\ FreeSlot(w)
                /\ thread' = w
                /\ worker' = [worker EXCEPT ![w] =
                        [IdleWorker EXCEPT !.pc = "perform", !.target = "run",
                                           !.workshop_id = workshop_id]]
          /\ stop_event' = FALSE
          /\ handler' = [handler EXCEPT ![h].pc = "set_single"]
          /\ UNCHANGED <<app_state, queue_thread, current_mode, os_vars, dirs, fix>>

\* start_queue up to self.queue_thread.start()
StartQueueBegin(h) ==
    /\ handler[h].pc = "idle"
    /\ ~LockHeld
    /\ \/ /\ is_busy \/ app_state.queue = <<>>
          /\ UNCHANGED vars
       \/ /\ ~is_busy
          /\ app_state.queue # <<>>
          /\ \E w \in Slots :
                /\ FreeSlot(w)
                /\ queue_thread' = w
                /\ worker' = [worker EXCEPT ![w] =
                        [IdleWorker EXCEPT !.pc = "q_loop", !.target = "queue"]]
          /\ stop_event' = FALSE
          /\ handler' = [handler EXCEPT ![h].pc = "set_queue"]
          /\ UNCHANGED <<app_state, thread, current_mode, os_vars, dirs, fix>>

\* self.current_mode = "single" / "queue"; return True, None: the lock is released
StartSetMode(h) ==
    /\ handler[h].pc \in {"set_single", "set_queue"}
    /\ current_mode' = IF handler[h].pc = "set_single" THEN "single" ELSE "queue"
    /\ handler' = [handler EXCEPT ![h].pc = "idle"]
    /\ UNCHANGED <<app_state, thread, queue_thread, stop_event, worker, os_vars,
                   dirs, fix>>

\* the steps of jobs that fail validation, alone or in a drain
AdmitStep(w) ==
    \/ ProcessQueueTest(w)
    \/ PerformBegin(w)
    \/ \E message \in EarlyConfigErrors : ConfigError(w, message)
    \/ QueueAfter(w)
    \/ EndUpdate(w)
    \/ ThreadExit(w)

NextAdmit ==
    \/ \E h \in Handlers, workshop_id \in Ids : StartDownloadBegin(h, workshop_id)
    \/ \E h \in Handlers : StartQueueBegin(h)
    \/ \E h \in Handlers : StartSetMode(h)
    \/ \E raw_items \in ItemLists : AddToQueue(raw_items)
    \/ \E w \in Slots : AdmitStep(w)

SpecAdmit == Init /\ [][NextAdmit]_vars

(***************************************************************************)
(* Jobs admitted after a cancel that was served while nothing ran: stop()  *)
(* has set stop_event and found no process, and no cancel comes while a    *)
(* worker is alive.                                                        *)
(***************************************************************************)
\* the state a stop_download request leaves at start-up
InitAfterCancel ==
    /\ app_state = [download_progress |-> 0, download_status |-> "idle",
                    current_download |-> "None", queue |-> <<>>,
                    downloading |-> FALSE, download_speed |-> "0 B/s",
                    status_message |-> ""]
    /\ thread = 0
    /\ queue_thread = 0
    /\ stop_event = TRUE
    /\ process = "None"
    /\ current_mode = "None"
    /\ worker = [w \in Slots |-> IdleWorker]
    /\ proc_state = "none"
    /\ term_sent = FALSE
    /\ returncode = 0
    /\ orphans = 0
    /\ fix = NoFix
    /\ handler = [h \in Handlers |-> IdleHandler]
    /\ dirs \in InitialLibraries

\* a stop_download request served while no worker is alive
IdleStop ==
    /\ ~is_busy
    /\ Stop

NextAfterCancel ==
    \/ \E workshop_id \in Ids : StartDownload(workshop_id)
    \/ StartQueue
    \/ IdleStop
    \/ \E raw_items \in ItemLists : AddToQueue(raw_items)
    \/ \E code \in {0, 1} : ProcExit(code)
    \/ \E w \in Slots :
          \/ ProcessQueueTest(w)
          \/ PerformBegin(w)
          \/ ValidateOk(w, 0)
          \/ SpawnProcess(w)
          \/ PollFailed(w)
          \/ PollExited(w)
          \/ \E seconds \in WaitChoices(w) : ManifestWait(w, seconds)
          \/ ManifestMissing(w)
          \/ QueueAfter(w)
          \/ EndUpdate(w)
          \/ ThreadExit(w)

SpecAfterCancel == InitAfterCancel /\ [][NextAfterCancel]_vars

(***************************************************************************)
(* The legacy API (src/api/boiiiwd_api.py): its handlers and the two       *)
(* thread bodies, start_download and process_queue_items, over the same    *)
(* app_state keys.  Its threads are kept in the worker slots.              *)
(***************************************************************************)
\* range(101), of which the model walks these iterations
legacy_range == <<0, 50, 100>>

LegacySpawn(w, target, workshop_id) ==
    /\ FreeSlot(w)
    /\ worker' = [worker EXCEPT ![w] =
            [IdleWorker EXCEPT !.pc = "begin", !.target = target,
                               !.workshop_id = workshop_id]]

\* download_workshop_item: validation, the test of the flag, Thread(...).start()
LegacyDownload(raw_id) ==
    LET workshop_id == extract_workshop_id(raw_id)
    IN  \/ /\ workshop_id = "None" \/ app_state.downloading
           /\ UNCHANGED vars
        \/ /\ workshop_id # "None"
           /\ ~app_state.downloading
           /\ \E w \in Slots : LegacySpawn(w, "start_download", workshop_id)
           /\ UNCHANGED <<app_state, mgr_vars, os_vars, dirs, fix, handler>>

\* process_queue: the test of the flag and of the queue, Thread(...).start()
LegacyProcessQueue ==
    \/ /\ app_state.downloading \/ app_state.queue = <<>>
       /\ UNCHANGED vars
    \/ /\ ~app_state.downloading
       /\ app_state.queue # <<>>
       /\ \E w \in Slots : LegacySpawn(w, "process_queue_items", "None")
       /\ UNCHANGED <<app_state, mgr_vars, os_vars, dirs, fix, handler>>

\* stop_download
LegacyStop ==
    /\ app_state' = IF app_state.downloading
                    THEN Updated(app_state, [downloading |-> FALSE,
                                             download_status |-> "stopped"])
                    ELSE app_state
    /\ UNCHANGED <<mgr_vars, worker, os_vars, dirs, fix, handler>>

\* add_to_queue: if item.isdigit() and item not in app_state['queue']
LegacyAddToQueue(items) ==
    /\ app_state' = [app_state EXCEPT
            !.queue = enqueue(@, SelectSeq(items, LAMBDA item : isdigit(item)))]
    /\ UNCHANGED <<mgr_vars, worker, os_vars, dirs, fix, handler>>

\* clear_queue
LegacyClearQueue ==
    /\ app_state' = [app_state EXCEPT !.queue = <<>>]
    /\ UNCHANGED <<mgr_vars, worker, os_vars, dirs, fix, handler>>

\* the first statements of start_download
LegacyDownloadBegin(w) ==
    /\ At(w, "begin") /\ worker[w].target = "start_download"
    /\ app_state' = Updated(app_state, [downloading |-> TRUE,
                                        current_download |-> worker[w].workshop_id,
                                        download_status |-> "downloading"])
    /\ worker' = [worker EXCEPT ![w].pc = "for", ![w].i = 1]
    /\ UNCHANGED <<mgr_vars, os_vars, dirs, fix, handler>>

\* the first statement of process_queue_items
LegacyQueueBegin(w) ==
    /\ At(w, "begin") /\ worker[w].target = "process_queue_items"
    /\ app_state' = Updated(app_state, [downloading |-> TRUE])
    /\ Goto(w, "while")
    /\ UNCHANGED <<mgr_vars, os_vars, dirs, fix, handler>>

\* while app_state['queue'] and app_state['downloading']: pop(0) and on; else
\* the three closing assignments
LegacyQueueWhile(w) ==
    /\ At(w, "while")
    /\ IF app_state.queue # <<>> /\ app_state.downloading
       THEN /\ app_state' = Updated(app_state,
                    [queue |-> Tail(app_state.queue),
                     current_download |-> Head(app_state.queue),
                     download_status |-> "downloading"])
            /\ worker' = [worker EXCEPT ![w].pc = "for", ![w].i = 1,
                                        ![w].workshop_id = Head(app_state.queue)]
            /\ UNCHANGED <<thread, queue_thread>>
       ELSE /\ app_state' = Updated(app_state, [downloading |-> FALSE,
                                                current_download |-> "None",
                                                download_status |-> "idle"])
            /\ ThreadEnds(w)
    /\ UNCHANGED <<stop_event, current_mode, os_vars, dirs, fix, handler>>

\* one iteration of for i in range(101): break when stopped, else progress = i
LegacyFor(w) ==
    /\ At(w, "for")
    /\ IF worker[w].i <= Len(legacy_range) /\ app_state.downloading
       THEN /\ app_state' = Updated(app_state,
                    [download_progress |-> legacy_range[worker[w].i]])
            /\ worker' = [worker EXCEPT ![w].i = @ + 1]
       ELSE /\ Goto(w, "after")
            /\ UNCHANGED app_state
    /\ UNCHANGED <<mgr_vars, os_vars, dirs, fix, handler>>

\* start_download after the loop: completed or stopped, then the finally clause
LegacyDownloadAfter(w) ==
    /\ At(w, "after") /\ worker[w].target = "start_download"
    /\ app_state' = Updated(app_state,
            [download_status |-> IF app_state.downloading THEN "completed"
                                 ELSE "stopped",
             downloading |-> FALSE, current_download |-> "None"])
    /\ ThreadEnds(w)
    /\ UNCHANGED <<stop_event, current_mode, os_vars, dirs, fix, handler>>

\* process_queue_items after the loop: completed if not stopped, and round again
LegacyQueueAfter(w) ==
    /\ At(w, "after") /\ worker[w].target = "process_queue_items"
    /\ app_state' = IF app_state.downloading
                    THEN Updated(app_state, [download_status |-> "completed"])
                    ELSE app_state
    /\ Goto(w, "while")
    /\ UNCHANGED <<mgr_vars, os_vars, dirs, fix, handler>>

LegacyThread(w) ==
    \/ LegacyDownloadBegin(w)
    \/ LegacyQueueBegin(w)
    \/ LegacyQueueWhile(w)
    \/ LegacyFor(w)
    \/ LegacyDownloadAfter(w)
    \/ LegacyQueueAfter(w)

NextLegacy ==
    \/ \E raw_id \in RawIds : LegacyDownload(raw_id)
    \/ LegacyProcessQueue
    \/ LegacyStop
    \/ \E items \in ItemLists : LegacyAddToQueue(items)
    \/ LegacyClearQueue
    \/ \E w \in Slots : LegacyThread(w)

\* the app_state literal of the legacy module; it has no manager and no process
InitLegacy ==
    /\ app_state = [download_progress |-> 0, download_status |-> "idle",
                    current_download |-> "None", queue |-> <<>>,
                    downloading |-> FALSE, download_speed |-> "0 KB/s",
                    status_message |-> ""]
    /\ thread = 0
    /\ queue_thread = 0
    /\ stop_event = FALSE
    /\ process = "None"
    /\ current_mode = "None"
    /\ worker = [w \in Slots |-> IdleWorker]
    /\ proc_state = "none"
    /\ term_sent = FALSE
    /\ returncode = 0
    /\ orphans = 0
    /\ dirs = <<>>
    /\ fix = NoFix
    /\ handler = [h \in Handlers |-> IdleHandler]

SpecLegacy == InitLegacy /\ [][NextLegacy]_vars

(***************************************************************************)
(* Properties.                                                             *)
(***************************************************************************)
Range(q) == {q[i] : i \in 1..Len(q)}

NoDup(q) == \A i, j \in 1..Len(q) : q[i] = q[j] => i = j

Alive(w) == worker[w].pc # "off"

\* positions of a worker inside a job that has not reached a terminal phase
JobPcs == {"validate", "spawn", "poll", "sample", "term_wait", "manifest",
           "install", "copy"}

\* C1: under every interleaving of start_download and start_queue at most one
\* worker thread (single or queue) is alive, and so at most one job is in a
\* non-terminal phase.
C1_OneWorker ==
    /\ Cardinality({w \in Slots : Alive(w)}) <= 1
    /\ Cardinality({w \in Slots : worker[w].pc \in JobPcs}) <= 1

\* a queue drain is in the middle of a job, the single-download thread being idle
C1_Witness == \E w \in Slots : queue_thread = w /\ At(w, "sample") /\ thread = 0

\* C2: once stop was asked for while the tool of the active job was running
\* (the signal has reached the process), the terminal phase that job reaches is
\* stopped, never error and never completed.
C2_CancelEndsStopped ==
    [][(/\ stop_event
        /\ term_sent
        /\ app_state.download_status \in NonTerminal
        /\ app_state'.download_status \in Terminal)
       => app_state'.download_status = "stopped"]_vars

\* C3: an install never changes a directory that already holds the content of an
\* item: the content of every such directory is the same after each step.
C3_ExistingUntouched ==
    [][\A d \in DOMAIN dirs :
          dirs[d] # {} => d \in DOMAIN dirs' /\ dirs'[d] = dirs[d]]_vars

\* F_n for the smallest positive n with F_n free in the subtree
FirstFreeSuffix(base, F) ==
    LET name(n) == F \o "_" \o ToString(n)
        n == CHOOSE n \in 1..(Cardinality(DOMAIN dirs) + 1) :
                /\ <<base, name(n)>> \notin DOMAIN dirs
                /\ \A k \in 1..(n - 1) : <<base, name(k)>> \in DOMAIN dirs
    IN  name(n)

\* C4: when the declared folder F already holds another item, the install goes
\* to F_n, n the smallest positive integer with F_n free (F_1 when only F is there).
C4_SmallestSuffix ==
    [][\A w \in Slots :
          (At(w, "install") /\ worker'[w].pc = "copy") =>
             \E metadata \in Manifests :
                LET F == declared_folder(metadata, worker[w].workshop_id).v
                    base == destination_base(metadata)
                IN  (/\ <<base, F>> \in DOMAIN dirs
                     /\ dirs[<<base, F>>] \ {worker[w].workshop_id} # {})
                    => worker'[w].final_folder = FirstFreeSuffix(base, F)]_vars

\* C5: while the reported phase is preparing, downloading or installing, no step
\* lowers the reported progress, the step into the terminal phase included.
C5_ProgressMonotone ==
    [][app_state.download_status \in NonTerminal
       => app_state'.download_progress >= app_state.download_progress]_vars

\* a sample that shrank, with the percentage held at the value reported before
C5_Witness ==
    \E w \in Slots :
        /\ At(w, "poll")
        /\ worker[w].size_samples = <<1, 0>>
        /\ worker[w].file_size_bytes = 1
        /\ app_state.download_progress = 99

\* C6: the pending queue never holds the identifier of the job a live worker
\* is running.
C6_QueueExcludesActive ==
    \A w \in Slots :
        worker[w].pc \in JobPcs => worker[w].workshop_id \notin Range(app_state.queue)

\* C7: while a job is running, no step puts its identifier into the pending queue.
C7_EnqueueSkipsActive ==
    [][\A w \in Slots :
          (/\ worker[w].pc \in JobPcs
           /\ worker[w].workshop_id \notin Range(app_state.queue))
          => worker[w].workshop_id \notin Range(app_state'.queue)]_vars

\* the items of a list that are not in `seen`, each once, in order of first occurrence
RECURSIVE FirstNew(_, _)
FirstNew(items, seen) ==
    IF items = <<>> THEN <<>>
    ELSE IF Head(items) \in seen THEN FirstNew(Tail(items), seen)
    ELSE <<Head(items)>> \o FirstNew(Tail(items), seen \cup {Head(items)})

\* C8: after every step the queue holds each identifier at most once, and a step
\* that makes it longer appends, in order of first occurrence, the identifiers of
\* one item list that were not pending yet.
C8_EnqueueOnce ==
    [][/\ NoDup(app_state'.queue)
       /\ Len(app_state'.queue) > Len(app_state.queue) =>
             \E raw_items \in ItemLists :
                app_state'.queue =
                    app_state.queue
                        \o FirstNew(cleaned(raw_items), Range(app_state.queue))]_vars

\* two identifiers are pending, in the order they were added
C8_Witness == app_state.queue = <<"2", "1">>

\* C9: a queue drain that was not cancelled ends only when the queue is empty.
C9_DrainEndsEmpty ==
    [][\A w \in Slots :
          (/\ worker[w].target = "queue"
           /\ worker[w].pc # "end"
           /\ worker'[w].pc = "end"
           /\ ~stop_event)
          => app_state'.queue = <<>>]_vars

C11_ValidationFailure ==
    [][\A w \in Slots :
          (/\ At(w, "validate")
           /\ worker'[w].pc # "validate"
           /\ app_state'.status_message \in EarlyConfigErrors \cup LateConfigErrors)
          => /\ app_state'.download_status = "error"
             /\ app_state'.status_message # ""
             /\ ~app_state'.downloading
             /\ process' = "None" /\ proc_state' = "none"
             /\ orphans' = orphans
             /\ worker'[w].pc = ReturnPc(w)
             /\ ~worker'[w].success]_vars

\* a single download has failed on the unset destination and is about to end
C11_Witness ==
    \E w \in Slots :
        /\ At(w, "end") /\ worker[w].target = "run"
        /\ app_state.download_status = "error"
        /\ app_state.status_message = "Destination folder is not set"
        /\ ~app_state.downloading
        /\ process = "None"

\* the subtree the kind of a manifest calls for, map in either spelling
KindSubtree(metadata) ==
    IF metadata.Type.v \in {"map", "Map"} THEN "usermaps" ELSE "mods"

\* C12: for a manifest that declares a folder name F and a kind, F not being in
\* the kind's subtree yet, the install chooses the directory named exactly F in
\* the maps subtree for kind map and in the mods subtree for any other kind; the
\* copy puts the item there and reports completed, progress 100 and zero
\* throughput, and the job returns success with that report standing.
C12_InstallDeclared ==
    [][\A w \in Slots :
          /\ (At(w, "install") /\ worker'[w].pc = "copy") =>
                LET metadata == worker'[w].metadata
                    F == metadata.FolderName.v
                IN  (/\ Truthy(metadata.FolderName) /\ Truthy(metadata.Type)
                     /\ <<KindSubtree(metadata), F>> \notin DOMAIN dirs)
                    => /\ worker'[w].final_folder = F
                       /\ worker'[w].base = KindSubtree(metadata)
                       /\ <<KindSubtree(metadata), F>> \in DOMAIN dirs'
          /\ (At(w, "copy") /\ worker'[w].pc = "refresh") =>
                /\ app_state'.download_status = "completed"
                /\ app_state'.download_progress = 100
                /\ app_state'.download_speed = "0 B/s"
                /\ worker[w].workshop_id
                      \in dirs'[<<worker[w].base, worker[w].final_folder>>]
          /\ (At(w, "refresh") /\ worker'[w].success) =>
                /\ app_state'.download_status = "completed"
                /\ app_state'.download_progress = 100]_vars

\* a mod declaring folder "a" has been copied into a fresh mods/a
C12_Witness ==
    \E w \in Slots :
        /\ At(w, "refresh")
        /\ worker[w].metadata.Type = JsonStr("mod")
        /\ worker[w].metadata.FolderName = JsonStr("a")
        /\ <<"mods", "a">> \in DOMAIN dirs
        /\ dirs[<<"mods", "a">>] = {worker[w].workshop_id}
        /\ app_state.download_status = "completed"

\* C13: whenever no worker is alive (so after every outcome of a job, the fatal
\* ones included) the busy flag and the current job identifier are cleared, and
\* a reported error carries a status message.
C13_FatalClears ==
    ~is_busy =>
        /\ ~app_state.downloading
        /\ app_state.current_download = "None"
        /\ app_state.download_status = "error" => app_state.status_message # ""

\* C14: in every reachable state, busy as the status endpoint reports it
\* (is_busy) implies that the current job identifier is set.
C14_BusyHasCurrent == is_busy => app_state.current_download # "None"

\* C15: when the worker of a queue drain ends, the queue exhausted or the drain
\* stopped, the reported phase is idle.
C15_DrainEndsIdle ==
    [][\A w \in Slots :
          (worker[w].target = "queue" /\ At(w, "exit") /\ worker'[w].pc = "off")
          => app_state'.download_status = "idle"]_vars

\* C16: while a worker is active, a start_download or start_queue step changes
\* nothing (queue, current job, phase, progress and all the rest), and no step
\* shows the effect of an admission: no worker is spawned, no thread reference
\* is set, the mode is not set and a pending stop request is not cleared.
C16_BusyAdmissionRejected ==
    [][is_busy =>
          /\ ((\E workshop_id \in RawIds : StartDownload(workshop_id)) \/ StartQueue)
                => UNCHANGED vars
          /\ \A w \in Slots : worker[w].pc = "off" => worker'[w].pc = "off"
          /\ thread' \in {thread, 0}
          /\ queue_thread' \in {queue_thread, 0}
          /\ current_mode' \in {current_mode, "None"}
          /\ stop_event => stop_event']_vars

\* a single download is running with identifiers pending and a stop asked for:
\* a start_queue made now is turned down for busyness alone
C16_Witness ==
    \E w \in Slots :
        /\ thread = w /\ At(w, "poll")
        /\ app_state.queue # <<>>
        /\ app_state.download_progress = 99
        /\ stop_event

\* an identifier that is neither all digits nor carries id=<digits>
Malformed(v) == v # "None" /\ extract_workshop_id(v) = "None"

\* C17: no worker is ever spawned for a malformed identifier, and a malformed
\* identifier never becomes the current job.
C17_MalformedRejected ==
    /\ \A w \in Slots : ~Malformed(worker[w].workshop_id)
    /\ ~Malformed(app_state.current_download)

\* C18: each step of the repair loop deals with one directory and leaves the
\* others as they are.  A rename moves the directory to a name no directory
\* had, its content with it: the declared folder name when that is free, else
\* the declared name with the first free numeric suffix; it is noted in
\* fixed.  A rename that failed is noted in errors and changes nothing.  In
\* both cases the loop goes on with the directories that remain.
C18_RepairRename ==
    [][(fix.pc = "loop" /\ fix.entries # <<>>) =>
          LET entry == Head(fix.entries)
              old == <<"usermaps", entry>>
              F == zone_manifest(dirs[old]).FolderName.v
              first_free == IF <<"usermaps", F>> \notin DOMAIN dirs THEN F
                            ELSE FirstFreeSuffix("usermaps", F)
          IN  /\ fix'.pc = "loop" /\ fix'.entries = Tail(fix.entries)
              /\ \A d \in DOMAIN dirs \ {old} : d \in DOMAIN dirs' /\ dirs'[d] = dirs[d]
              /\ Cardinality(DOMAIN dirs') = Cardinality(DOMAIN dirs)
              /\ dirs' # dirs =>
                    /\ F # entry
                    /\ DOMAIN dirs' = (DOMAIN dirs \ {old}) \cup {<<"usermaps", first_free>>}
                    /\ dirs'[<<"usermaps", first_free>>] = dirs[old]
                    /\ fix'.errors = fix.errors
                    /\ Len(fix'.fixed) = Len(fix.fixed) + 1
                    /\ fix'.fixed[Len(fix'.fixed)].old_name = entry
                    /\ fix'.fixed[Len(fix'.fixed)].new_name = first_free
              /\ fix'.errors # fix.errors =>
                    /\ fix'.errors = Append(fix.errors, entry)
                    /\ dirs' = dirs
                    /\ fix'.fixed = fix.fixed]_vars

\* directories 1 and 2 both declared folder "a": the first was renamed to a, the
\* second to a_1, and the loop is through
C18_Witness ==
    /\ fix.pc = "done"
    /\ Len(fix.fixed) = 2
    /\ fix.fixed[1].new_name = "a" /\ fix.fixed[2].new_name = "a_1"
    /\ <<"usermaps", "a">> \in DOMAIN dirs /\ <<"usermaps", "a_1">> \in DOMAIN dirs
    /\ dirs[<<"usermaps", "a">>] # {} /\ dirs[<<"usermaps", "a_1">>] # {}

\* C19: in the legacy API at most one download thread (start_download or
\* process_queue_items) exists at a time.
C19_LegacyOneWorker ==
    \A v, w \in Slots : (worker[v].pc # "off" /\ worker[w].pc # "off") => v = w

\* the tool processes that were started and have not exited
LiveProcesses == (IF proc_state = "running" THEN 1 ELSE 0) + orphans

\* C20: at most one external tool process is alive at any instant.
C20_OneProcess == LiveProcesses <= 1

\* C21: phase stopped is written only by a job whose terminated process has
\* exited: the step that reports stopped finds the process exited, takes the
\* worker out of the wait that followed terminate(), and leaves no process of
\* the job running behind it.
C21_StoppedAfterExit ==
    [][(app_state'.download_status = "stopped" /\ app_state.download_status # "stopped")
       => /\ proc_state = "exited"
          /\ term_sent
          /\ \E w \in Slots : At(w, "term_wait") /\ worker'[w].pc = ReturnPc(w)
          /\ proc_state' # "running"
          /\ orphans' = orphans]_vars

\* a cancelled single download has reported stopped, no process left
C21_Witness ==
    \E w \in Slots :
        /\ At(w, "end") /\ worker[w].target = "run"
        /\ app_state.download_status = "stopped"
        /\ stop_event
        /\ process = "None" /\ LiveProcesses = 0

\* C22: the reported progress is at most 99 while the process of the job runs,
\* and progress 100 is shown only in phase completed (so never by a job that
\* ended in error or stopped).
C22_HundredOnlyCompleted ==
    /\ proc_state = "running" => app_state.download_progress <= 99
    /\ app_state.download_progress = 100 => app_state.download_status = "completed"

\* C23: every step in which a job raises (starting the process, waiting for
\* the terminated process, copying, refreshing the library) reports phase error
\* with the exception's message, clears the busy flag and releases the process
\* handle.
C23_ExceptionReported ==
    [][\A w \in Slots :
          (SpawnRaises(w) \/ WaitTimeout(w) \/ CopyRaises(w) \/ LibraryRefreshRaises(w))
          => /\ app_state'.download_status = "error"
             /\ app_state'.status_message = "exc"
             /\ process' = "None"]_vars

\* C24: the step into phase installing is taken by a worker that has found and
\* read the manifest, its process having exited with code 0.  A worker that
\* finds its process exited with another code reports error and returns from
\* the job as failed, the handle released; and a process is started only by a
\* job in phase downloading that has not had a process yet.
C24_InstallAfterCleanExit ==
    [][/\ (app_state'.download_status = "installing"
            /\ app_state.download_status # "installing")
          => /\ process = "Popen" /\ proc_state = "exited" /\ returncode = 0
             /\ \E w \in Slots : /\ At(w, "install") /\ worker'[w].pc = "copy"
                                  /\ worker'[w].metadata \in Manifests
       /\ \A w \in Slots :
             /\ (/\ At(w, "poll") /\ proc_state = "exited" /\ returncode # 0
                  /\ worker'[w] # worker[w])
                => /\ app_state'.download_status = "error"
                   /\ ~app_state'.downloading
                   /\ worker'[w].pc = ReturnPc(w) /\ ~worker'[w].success
                   /\ process' = "None" /\ proc_state' = "none"
             /\ (At(w, "spawn") /\ worker'[w].pc = "poll")
                => /\ app_state.download_status = "downloading"
                   /\ proc_state = "none"
                   /\ worker[w].size_samples = <<>>]_vars

\* a job is installing, its process exited with code 0 and the manifest read
C24_Witness ==
    \E w \in Slots :
        /\ At(w, "copy")
        /\ app_state.download_status = "installing"
        /\ proc_state = "exited" /\ returncode = 0
        /\ worker[w].metadata \in Manifests

\* the declared name and all its candidates for the item are taken in the subtree
Exhausted(base, folder_name, workshop_id) ==
    \A name \in CandidateNames(folder_name, workshop_id) : <<base, name>> \in DOMAIN dirs

\* C25: when the declared folder name and all its suffixed candidates up to the
\* attempt bound are taken, the install fails: the worker that has read the
\* manifest does not go on to phase installing and the copy, so nothing is
\* copied into a directory that was there.
C25_ExhaustionFails ==
    [][\A w \in Slots :
          (/\ At(w, "install")
           /\ Exhausted(worker'[w].base,
                        declared_folder(worker'[w].metadata, worker[w].workshop_id).v,
                        worker[w].workshop_id))
          => /\ worker'[w].pc # "copy"
             /\ app_state'.download_status # "installing"]_vars

\* C26: the wait for the manifest adds up to at most 120 units, takes no
\* further turn once a stop was asked for, and a worker that leaves the wait
\* without a manifest ends the job in phase error.
C26_ManifestWaitBounded ==
    [][\A w \in Slots :
          At(w, "manifest") =>
             /\ worker'[w].waited <= max_wait
             /\ stop_event => worker'[w].waited <= worker[w].waited
             /\ worker'[w].pc \notin {"manifest", "install"} =>
                   /\ app_state'.download_status = "error"
                   /\ worker'[w].pc = ReturnPc(w) /\ ~worker'[w].success]_vars

\* C27: in every reachable state the pending queue holds no identifier twice,
\* also while several add_to_queue requests are served at the same time.
C27_NoDuplicateConcurrent == NoDup(app_state.queue)

\* C28: whenever no worker is alive, the reported throughput is the zero rate.
C28_IdleZeroRate == ~is_busy => app_state.download_speed = format_speed(0)

\* C29: with the expected size unknown (0), a polling tick is carried out
\* whatever the samples are and leaves the reported percentage as it was.
C29_UnknownSizeKeepsProgress ==
    [][\A w \in Slots :
          (/\ At(w, "sample")
           /\ worker[w].file_size_bytes = 0
           /\ worker'[w].pc = "poll")
          => /\ app_state'.download_progress = app_state.download_progress
             /\ Len(worker'[w].size_samples) >= 1]_vars

\* a tick of a job of unknown size has taken a sample of 2 bytes after five others
C29_Witness ==
    \E w \in Slots :
        /\ At(w, "poll")
        /\ worker[w].file_size_bytes = 0
        /\ Len(worker[w].size_samples) = 6
        /\ worker[w].size_samples[6] = 2
        /\ app_state.download_progress = 0
        /\ app_state.download_speed = "2.00 B/s"

\* num / den rounded to the nearest integer, a half to the even one
RoundDiv(num, den) ==
    LET q == num \div den
        r == num % den
    IN  IF 2 * r < den THEN q
        ELSE IF 2 * r > den THEN q + 1
        ELSE IF q % 2 = 0 THEN q ELSE q + 1

\* min(round(average of the last 5 samples / expected size * 100), 100), the
\* average being the exact mean of the last min(5, n) samples
ClaimedPercentage(samples, file_size_bytes) ==
    LET last == LastN(samples, window)
    IN  Min(RoundDiv(SumSeq(last) * 100, Len(last) * file_size_bytes), 100)

\* C30: for every sample history and every positive expected size, the
\* percentage a polling tick computes before its clamps is
\* min(round(average of the last 5 samples / size * 100), 100): what the tick
\* reports is that value, raised to the value reported before and held at 99
\* while the process runs.
C30_TickPercentage ==
    [][\A w \in Slots :
          (/\ At(w, "sample")
           /\ worker[w].file_size_bytes > 0
           /\ worker'[w].pc = "poll")
          => LET p == ClaimedPercentage(worker'[w].size_samples,
                                        worker[w].file_size_bytes)
                 q == Max(p, app_state.download_progress)
             IN  app_state'.download_progress =
                    IF q >= 100 /\ proc_state = "running" THEN 99 ELSE q]_vars

\* C31: DownloadManager.stop never fails, whatever the worker does between its
\* steps: no stop_download request ends with an exception.
C31_StopNeverFails == \A h \in Handlers : handler[h].pc # "raised"

\* C32: a repair of all items covers the maps subtree and the mods subtree: when
\* it is through, every installed directory of either subtree whose name differs
\* from the folder name its manifest declares is the new name of a rename or is
\* reported as failed.
C32_RepairCoversBoth ==
    (fix.pc = "done" /\ fix.target_ids.all) =>
        \A d \in DOMAIN dirs :
            (dirs[d] # {} /\ zone_manifest(dirs[d]).FolderName.v # d[2]) =>
                \/ \E i \in 1..Len(fix.fixed) : fix.fixed[i].new_name = d[2]
                \/ \E i \in 1..Len(fix.errors) : fix.errors[i] = d[2]

\* C33: after a job of a drain the worker removes from the queue the identifier
\* of the job it just ran, whatever requests were served during the job: the
\* head it pops is that identifier, and the pop does not end the thread.
C33_PopsTheJobItRan ==
    [][\A w \in Slots :
          (At(w, "q_after") /\ worker'[w].pc # "q_after")
          => /\ worker'[w].pc # "off"
             /\ app_state.queue # <<>>
             /\ Head(app_state.queue) = worker[w].workshop_id
             /\ app_state'.queue = Tail(app_state.queue)]_vars

\* C34: the worker of a drain never evaluates current_mode before start_queue
\* has set it, so a drain whose job failed always ends there, leaving the rest
\* of the queue; and current_mode is None whenever no worker is alive.
C34_ModeSetBeforeRead ==
    [][/\ \A w \in Slots :
             (At(w, "q_after") /\ worker'[w].pc # "q_after")
             => /\ ~LockHeld
                /\ ~worker[w].success => worker'[w].pc = "end"
       /\ ~is_busy' => current_mode' = "None"]_vars

\* C35: the terminal phases are absorbing: once the phase is completed, error or
\* stopped it changes only when another job begins (phase preparing); a job
\* reported completed is not reported as error afterwards.
C35_TerminalAbsorbing ==
    [][(app_state.download_status \in Terminal
            /\ app_state'.download_status # app_state.download_status)
       => app_state'.download_status = "preparing"]_vars

\* C36: every admitted job eventually reaches a terminal phase, given that its
\* worker is scheduled and the external process eventually exits: a phase of
\* preparing, downloading or installing is always followed by completed, error
\* or stopped.
C36_JobsTerminate ==
    (app_state.download_status \in NonTerminal)
        ~> (app_state.download_status \in Terminal)

\* C37: once cancel is requested during a drain (stop_event is set while the
\* drain's worker lives), the drain begins no further job, and a step of its
\* worker takes from the queue at most the identifier of the job it ran, which
\* is the head: what was not started stays, in its order.
C37_CancelFreezesDrain ==
    [][\A w \in Slots :
          (worker[w].target = "queue" /\ stop_event /\ worker'[w] # worker[w])
          => /\ At(w, "perform") => worker'[w].pc = "perform"
             /\ app_state'.queue # app_state.queue =>
                   /\ Head(app_state.queue) = worker[w].workshop_id
                   /\ app_state'.queue = Tail(app_state.queue)]_vars

\* C38: a cancel served while no worker is alive has no effect on a job admitted
\* afterwards: admission clears stop_event before the worker starts, so as long
\* as a worker is alive and no cancel is requested during its jobs, every test
\* the worker makes of the flag finds it clear, and no job is reported stopped.
C38_IdleCancelForgotten ==
    /\ is_busy => ~stop_event
    /\ app_state.download_status # "stopped"
    /\ ~term_sent

\* a job admitted after the cancel polls its running process, the flag clear
C38_Witness ==
    \E w \in Slots :
        /\ At(w, "poll")
        /\ proc_state = "running"
        /\ ~stop_event
        /\ app_state.download_status = "downloading"

=============================================================================
